---- MODULE Spec2Model ----
(***************************************************************************)
(* A model of main.py: a single train line with stations and trains that   *)
(* bounce between the two ends of the track, stepped in one-minute ticks.  *)
(*                                                                         *)
(* Python positions are 0-based; the track E is a TLA+ sequence, so the    *)
(* flag of position p is E[p + 1].  A Passenger object is a record whose   *)
(* field id stands for the object's identity.                              *)
(***************************************************************************)
EXTENDS Integers, Sequences, FiniteSets, TLC

VARIABLES
    positions,        \* subway.positions: the track E
    ticks,            \* the run length: the argument of range() in the main loop
    stations,         \* subway.stations: station position -> Station.passengers
    trains,           \* subway.trains: sequence of Train records
    MINUTE,           \* the global clock
    ELAPSED_TIMES,    \* travel times, one per alighting
    DEPARTURE_TIME,   \* boarding waits, one per boarding
    i,                \* number of iterations of the main loop started so far
    sIdx,             \* Subway.next: index of the next station to receive passengers
    tIdx,             \* Subway.next: index of the next train to advance
    pc,               \* "loop" | "exit" | "raised"
    err,              \* the uncaught exception that ended the run, "" if none
    out,              \* the printed mean time as <<sum, count>>, <<>> if none printed
    born,             \* history: per passenger id, where and when it was created
    boardings,        \* history: one record per value appended to DEPARTURE_TIME
    alightings,       \* history: one record per value appended to ELAPSED_TIMES
    moves,            \* history: per train, the number of completed moves
    path,             \* history: per train, its position after each advance that returned
    TRAINS0           \* history: the configured trains

vars == <<positions, ticks, stations, trains, MINUTE, ELAPSED_TIMES, DEPARTURE_TIME,
          i, sIdx, tIdx, pc, err, out, born, boardings, alightings, moves, path,
          TRAINS0>>

hist == <<born, boardings, alightings, moves, path, TRAINS0>>

----------------------------------------------------------------------------
(* Bounds of the model *)

\* the run length of the configurations of SpecLong, in which a train has the
\* time to go round a track of three positions and to carry a passenger after it
LongTicks == 12

\* the scope of an enumerated configuration: the length of its track, plus the
\* number of its trains, plus the number of passengers its stations generate in
\* the run, is at most MaxSize
MaxSize == 5

\* the run length of the enumerated configurations that step at all
MaxTicks == 6

----------------------------------------------------------------------------
(* Program constants *)

\* random.randint(0, 10)
MaxDemand == 10

\* range(60*10)
ShippedTicks == 600

\* E
ShippedE ==
    <<1, 0, 0, 0, 0, 0, 0, 1, 0, 0, 0, 0, 0, 0, 1, 0, 0, 0, 0, 0, 1, 0, 0, 0, 0, 0, 0, 1, 0,
      0, 0, 0, 0, 1, 0, 0, 0, 0, 1, 0, 0, 0, 0, 0, 0, 0, 0, 1>>

\* a variant of Train whose should_depart defaults to False
Train_arrived(position, direction) ==
    [position |-> position, direction |-> direction,
     passengers |-> <<>>, should_depart |-> FALSE]

\* Train(position, direction): passengers defaults to [], should_depart to True
Train(position, direction) ==
    [position |-> position, direction |-> direction,
     passengers |-> <<>>, should_depart |-> TRUE]

\* TRAINS
ShippedTRAINS ==
    <<Train(0, 1), Train(16, 1), Train(32, 1), Train(16, -1), Train(32, -1), Train(47, -1)>>

----------------------------------------------------------------------------
(* Helpers *)

Min(a, b) == IF a <= b THEN a ELSE b

Max(a, b) == IF a >= b THEN a ELSE b

Dist(a, b) == IF a < b THEN b - a ELSE a - b

RECURSIVE SeqSum(_)
SeqSum(s) == IF s = <<>> THEN 0 ELSE Head(s) + SeqSum(Tail(s))

\* Python's a % b for b # 0: the result has the sign of the divisor
PyMod(a, b) == IF b > 0 THEN a % b ELSE -((-a) % (-b))

\* Subway.__init__: the positions whose flag is truthy, the keys of subway.stations
StationPositions(E) == {p \in 0..(Len(E) - 1) : E[p + 1] # 0}

\* the k-th key of subway.stations in insertion order, which is ascending position
StationAt(k) ==
    CHOOSE p \in DOMAIN stations : Cardinality({q \in DOMAIN stations : q < p}) = k - 1

NStations == Cardinality(DOMAIN stations)

NTrains == Len(trains)

\* a variant of time_elapsed with the operands swapped
time_elapsed_swapped(passenger) == passenger.start - MINUTE

\* Passenger.time_elapsed
time_elapsed(passenger) == MINUTE - passenger.start

----------------------------------------------------------------------------
(* Configurations: the track, the trains and the run length are inputs *)

\* every track of 0/1 flags of length 0..MaxSize
Tracks == UNION {[1..n -> {0, 1}] : n \in 0..MaxSize}

\* a freshly constructed train anywhere inside the track, in either direction
TrainChoices(E) == {Train(p, d) : p \in 0..(Len(E) - 1), d \in {-1, 1}}

\* the lists of trains that fit in the scope beside the track E
TrainLists(E) == UNION {[1..n -> TrainChoices(E)] : n \in 0..(MaxSize - Len(E))}

\* range(n) is empty for n <= 0
RunLengths == {-1, 0, MaxTicks}

\* Subway.__init__ and the module-level initialisations
Start(E, T, n) ==
    /\ positions = E
    /\ ticks = n
    /\ stations = [p \in StationPositions(E) |-> <<>>]
    /\ trains = T
    /\ MINUTE = 0
    /\ ELAPSED_TIMES = <<>>
    /\ DEPARTURE_TIME = <<>>
    /\ i = 0
    /\ sIdx = 1
    /\ tIdx = 1
    /\ pc = "loop"
    /\ err = ""
    /\ out = <<>>
    /\ born = <<>>
    /\ boardings = <<>>
    /\ alightings = <<>>
    /\ moves = [j \in DOMAIN T |-> 0]
    /\ path = [j \in DOMAIN T |-> <<>>]
    /\ TRAINS0 = T

\* every configuration of the scope, and the shipped one (which the scope leaves
\* no passengers: its trains run on the shipped track for the shipped 600 ticks)
Init ==
    \/ \E E \in Tracks : \E T \in TrainLists(E) : \E n \in RunLengths : Start(E, T, n)
    \/ Start(ShippedE, ShippedTRAINS, ShippedTicks)

----------------------------------------------------------------------------
(* Station.receive_passengers *)

\* a variant of Destinations that keeps the station's own position
Destinations_all(position) == DOMAIN stations

\* destinations = set(subway.stations) - set([self.position])
Destinations(position) == DOMAIN stations \ {position}

\* the number of passengers the scope leaves for the run's stations to generate
Budget == Max(0, MaxSize - Len(positions) - Len(trains))

\* the draws of random.randint(0, 10) the model follows
Draws == 0..Min(MaxDemand, Budget - Len(born))

\* a variant of Passenger whose default start is evaluated once, at tick 0
Passenger_static(id, destination) == [id |-> id, destination |-> destination, start |-> 0]

\* a variant of Passenger stamped with the tick after the current one
Passenger_next(id, destination) ==
    [id |-> id, destination |-> destination, start |-> MINUTE + 1]

\* Passenger(destination): start defaults to MINUTE
Passenger(id, destination) == [id |-> id, destination |-> destination, start |-> MINUTE]

\* the loop body ran n times, drawing the destinations ds[1..n]
ReceiveAppends ==
    /\ pc = "loop" /\ i < ticks /\ sIdx <= NStations
    /\ LET position == StationAt(sIdx) IN
       \E n \in Draws :
          /\ n = 0 \/ Destinations(position) # {}
          /\ \E ds \in [1..n -> Destinations(position)] :
                /\ stations' = [stations EXCEPT ![position] =
                                  @ \o [k \in 1..n |-> Passenger(Len(born) + k, ds[k])]]
                /\ born' = born \o [k \in 1..n |-> [origin |-> position, tick |-> MINUTE,
                                                     destination |-> ds[k]]]
    /\ sIdx' = sIdx + 1
    /\ UNCHANGED <<positions, ticks, trains, MINUTE, ELAPSED_TIMES, DEPARTURE_TIME, i, tIdx,
                   pc, err, out, boardings, alightings, moves, path, TRAINS0>>

\* random.sample([], 1) raises ValueError: there is no other station
ReceiveRaises ==
    /\ pc = "loop" /\ i < ticks /\ sIdx <= NStations
    /\ LET position == StationAt(sIdx) IN
       \E n \in Draws : n > 0 /\ Destinations(position) = {}
    /\ pc' = "raised"
    /\ err' = "ValueError"
    /\ UNCHANGED <<positions, ticks, stations, trains, MINUTE, ELAPSED_TIMES, DEPARTURE_TIME,
                   i, sIdx, tIdx, out, hist>>

receive_passengers == ReceiveAppends \/ ReceiveRaises

----------------------------------------------------------------------------
(* Train.take_passengers and Train.leave_passengers *)

\* a variant of Boards with the direction test reversed
Boards_reversed(train, passenger) ==
    (train.position < passenger.destination) = (train.direction = -1)

\* a variant of Boards that tests "and" for "=="
Boards_both(train, passenger) ==
    (train.position < passenger.destination) /\ (train.direction = 1)

\* a variant of Boards that lets every waiting passenger board
Boards_any(train, passenger) == TRUE

\* train_dir == passenger_dir
Boards(train, passenger) ==
    (train.position < passenger.destination) = (train.direction = 1)

\* the passengers appended to self.passengers, in waiting order
Boarders(train, waiting) ==
    LET B(p) == Boards(train, p) IN SelectSeq(waiting, B)

\* a variant of stay_in_station that leaves the waiting list as it was
stay_in_station_all(train, waiting) == waiting

\* stay_in_station
stay_in_station(train, waiting) ==
    LET S(p) == ~Boards(train, p) IN SelectSeq(waiting, S)

\* a variant of Alights that compares with <=
Alights_le(train, passenger) == passenger.destination <= train.position

\* passenger.destination == self.position
Alights(train, passenger) == passenger.destination = train.position

\* the passengers whose time is appended to ELAPSED_TIMES, in onboard order
Leavers(train) ==
    LET A(p) == Alights(train, p) IN SelectSeq(train.passengers, A)

\* a variant of Remaining that keeps nobody onboard
Remaining_none(train) == <<>>

\* the local list passengers of leave_passengers
Remaining(train) ==
    LET R(p) == ~Alights(train, p) IN SelectSeq(train.passengers, R)

Times(ps) == [k \in DOMAIN ps |-> time_elapsed(ps[k])]

Events(ps, j, position) ==
    [k \in DOMAIN ps |-> [id |-> ps[k].id, train |-> j, position |-> position,
                          tick |-> MINUTE]]

----------------------------------------------------------------------------
(* Train.advance *)

\* a variant of Exchanges with the flag inverted
Exchanges_dwell(train) == train.position \in DOMAIN stations /\ train.should_depart

\* a variant of Exchanges that ignores should_depart
Exchanges_always(train) == train.position \in DOMAIN stations

\* a variant of Exchanges that takes position 0 for no position
Exchanges_nonzero(train) ==
    train.position # 0 /\ train.position \in DOMAIN stations /\ ~train.should_depart

\* a variant of Exchanges that stops only where somebody waits or wants to alight
Exchanges_demand(train) ==
    /\ train.position \in DOMAIN stations /\ ~train.should_depart
    /\ \/ stations[train.position] # <<>>
       \/ \E k \in DOMAIN train.passengers : train.passengers[k].destination = train.position

\* is_station and not self.should_depart
Exchanges(train) == train.position \in DOMAIN stations /\ ~train.should_depart

\* a variant of switch_direction that takes the modulo by the track length
switch_direction_len(position, len) == PyMod(position, len) = 0

\* a variant of switch_direction that tests the upper end only
switch_direction_top(position, len) == position = len - 1

\* switch_direction, for len(subway.positions) # 1
switch_direction(position, len) == PyMod(position, len - 1) = 0

\* a variant of InBounds without the second assertion
InBounds_upper(position, len) == position < len

\* the two assertions at the end of advance
InBounds(position, len) == position < len /\ 0 <= position

\* leave_passengers, then take_passengers, then should_depart = True
AdvanceExchange ==
    /\ pc = "loop" /\ i < ticks /\ sIdx > NStations /\ tIdx <= NTrains
    /\ LET train   == trains[tIdx]
           waiting == stations[train.position]
           after   == [train EXCEPT !.passengers = Remaining(train)]
       IN /\ Exchanges(train)
          /\ ELAPSED_TIMES' = ELAPSED_TIMES \o Times(Leavers(train))
          /\ alightings' = alightings \o Events(Leavers(train), tIdx, train.position)
          /\ DEPARTURE_TIME' = DEPARTURE_TIME \o Times(Boarders(after, waiting))
          /\ boardings' = boardings \o Events(Boarders(after, waiting), tIdx, train.position)
          /\ trains' = [trains EXCEPT ![tIdx] =
                          [after EXCEPT !.passengers = @ \o Boarders(after, waiting),
                                        !.should_depart = TRUE]]
          /\ stations' = [stations EXCEPT ![train.position] = stay_in_station(after, waiting)]
          /\ path' = [path EXCEPT ![tIdx] = Append(@, train.position)]
    /\ tIdx' = tIdx + 1
    /\ UNCHANGED <<positions, ticks, MINUTE, i, sIdx, pc, err, out, born, moves, TRAINS0>>

\* should_depart = False, position += direction, the switch, the assertions pass
AdvanceMove ==
    /\ pc = "loop" /\ i < ticks /\ sIdx > NStations /\ tIdx <= NTrains
    /\ LET train == trains[tIdx]
           len   == Len(positions)
           pos   == train.position + train.direction
       IN /\ ~Exchanges(train)
          /\ len # 1
          /\ InBounds(pos, len)
          /\ trains' = [trains EXCEPT ![tIdx] =
                          [train EXCEPT !.should_depart = FALSE,
                                        !.position = pos,
                                        !.direction = IF switch_direction(pos, len)
                                                      THEN -train.direction
                                                      ELSE train.direction]]
          /\ moves' = [moves EXCEPT ![tIdx] = @ + 1]
          /\ path' = [path EXCEPT ![tIdx] = Append(@, pos)]
    /\ tIdx' = tIdx + 1
    /\ UNCHANGED <<positions, ticks, stations, MINUTE, ELAPSED_TIMES, DEPARTURE_TIME, i, sIdx,
                   pc, err, out, born, boardings, alightings, TRAINS0>>

\* the move ends in an uncaught exception: the modulo by zero on a track of length 1,
\* or a failing assertion
AdvanceRaises ==
    /\ pc = "loop" /\ i < ticks /\ sIdx > NStations /\ tIdx <= NTrains
    /\ LET train == trains[tIdx]
           len   == Len(positions)
           pos   == train.position + train.direction
       IN /\ ~Exchanges(train)
          /\ \/ /\ len = 1
                /\ err' = "ZeroDivisionError"
                /\ trains' = [trains EXCEPT ![tIdx] =
                                [train EXCEPT !.should_depart = FALSE, !.position = pos]]
             \/ /\ len # 1
                /\ ~InBounds(pos, len)
                /\ err' = "AssertionError"
                /\ trains' = [trains EXCEPT ![tIdx] =
                                [train EXCEPT !.should_depart = FALSE,
                                              !.position = pos,
                                              !.direction = IF switch_direction(pos, len)
                                                            THEN -train.direction
                                                            ELSE train.direction]]
    /\ pc' = "raised"
    /\ UNCHANGED <<positions, ticks, stations, MINUTE, ELAPSED_TIMES, DEPARTURE_TIME, i, sIdx,
                   tIdx, out, hist>>

advance == AdvanceExchange \/ AdvanceMove \/ AdvanceRaises

----------------------------------------------------------------------------
(* The main loop *)

\* Subway.next has returned: MINUTE += 1 and the next iteration
Minute ==
    /\ pc = "loop" /\ i < ticks /\ sIdx > NStations /\ tIdx > NTrains
    /\ MINUTE' = MINUTE + 1
    /\ i' = i + 1
    /\ sIdx' = 1
    /\ tIdx' = 1
    /\ UNCHANGED <<positions, ticks, stations, trains, ELAPSED_TIMES, DEPARTURE_TIME,
                   pc, err, out, hist>>

\* print("mean time:", sum(ELAPSED_TIMES) / len(ELAPSED_TIMES))
MeanTime ==
    /\ pc = "loop" /\ i >= ticks
    /\ IF Len(ELAPSED_TIMES) = 0
       THEN /\ pc' = "raised"
            /\ err' = "ZeroDivisionError"
            /\ out' = out
       ELSE /\ pc' = "exit"
            /\ err' = err
            /\ out' = <<SeqSum(ELAPSED_TIMES), Len(ELAPSED_TIMES)>>
    /\ UNCHANGED <<positions, ticks, stations, trains, MINUTE, ELAPSED_TIMES, DEPARTURE_TIME,
                   i, sIdx, tIdx, hist>>

Next == receive_passengers \/ advance \/ Minute \/ MeanTime

Spec == Init /\ [][Next]_vars

----------------------------------------------------------------------------
(* Vocabulary of the properties *)

TrackLength == Len(positions)

InTrack(position) == 0 <= position /\ position <= TrackLength - 1

\* not at an end of the line with the direction that leaves the track
FacesInward(train) ==
    /\ ~(train.position = 0 /\ train.direction = -1)
    /\ ~(train.position = TrackLength - 1 /\ train.direction = 1)

\* the places in waiting lists that hold passenger id
StationPlaces(id) ==
    UNION {{<<"station", p, k>> : k \in {n \in DOMAIN stations[p] : stations[p][n].id = id}} :
           p \in DOMAIN stations}

\* the places in onboard lists that hold passenger id
TrainPlaces(id) ==
    UNION {{<<"train", j, k>> :
              k \in {n \in DOMAIN trains[j].passengers : trains[j].passengers[n].id = id}} :
           j \in DOMAIN trains}

\* every passenger object held by a waiting list or an onboard list
Held ==
    UNION {{stations[p][k] : k \in DOMAIN stations[p]} : p \in DOMAIN stations} \cup
    UNION {{trains[j].passengers[k] : k \in DOMAIN trains[j].passengers} : j \in DOMAIN trains}

Ids(s) == {s[k].id : k \in DOMAIN s}

\* the indices of the history records of passenger id
RecordsOf(log, id) == {k \in DOMAIN log : log[k].id = id}

----------------------------------------------------------------------------
(* C1: train positions stay within the track *)

\* C1 as stated: on a track of length >= 2, with the trains started inside the
\* track, every train's position is within [0, trackLength-1] in every state and
\* no assertion of advance fails.
C1_InsideStartSuffices ==
    TrackLength >= 2 =>
        /\ \A j \in DOMAIN trains : InTrack(trains[j].position)
        /\ err # "AssertionError"

\* C1 amended: on a track of length >= 2, a train started inside the track and
\* not facing outward at an end of it stays within [0, trackLength-1] in every
\* state; when this holds of every train, no assertion of advance fails. The
\* shipped track and trains are such a configuration.
C1_PositionInTrack ==
    TrackLength >= 2 =>
        /\ \A j \in DOMAIN trains : FacesInward(TRAINS0[j]) => InTrack(trains[j].position)
        /\ (\A j \in DOMAIN trains : FacesInward(TRAINS0[j])) => err # "AssertionError"

\* the shipped run has made its 600 steps and every train has turned at an end
C1_Witness ==
    /\ positions = ShippedE
    /\ i = ShippedTicks
    /\ \A j \in DOMAIN trains : moves[j] > TrackLength

----------------------------------------------------------------------------
(* C2: a passenger is in at most one container *)

\* C2: every generated passenger is held at most once, by one waiting list or one
\* onboard list; it has at most one boarding record and one alighting record,
\* and is held by no list once it has alighted.
C2_AtMostOneContainer ==
    \A id \in DOMAIN born :
        /\ Cardinality(StationPlaces(id) \cup TrainPlaces(id)) <= 1
        /\ Cardinality(RecordsOf(boardings, id)) <= 1
        /\ Cardinality(RecordsOf(alightings, id)) <= 1
        /\ RecordsOf(alightings, id) # {} => StationPlaces(id) \cup TrainPlaces(id) = {}

\* two trains have made their exchange at the same station in this tick, and a
\* passenger that waited there boarded the first of them
C2_Witness ==
    /\ NTrains >= 2 /\ tIdx > 2
    /\ trains[1].position = trains[2].position
    /\ trains[1].should_depart /\ trains[2].should_depart
    /\ \E k \in DOMAIN boardings :
          /\ boardings[k].tick = MINUTE
          /\ boardings[k].train = 1
          /\ boardings[k].position = trains[2].position

----------------------------------------------------------------------------
(* C3: alighting happens at the destination, and only there *)

\* train j made its exchange in this step
ExchangeStep(j) ==
    /\ j \in DOMAIN trains
    /\ tIdx = j /\ tIdx' = j + 1
    /\ trains'[j].position = trains[j].position
    /\ trains'[j].should_depart /\ ~trains[j].should_depart

\* train j made a move that returned in this step
MoveStep(j) ==
    /\ j \in DOMAIN trains
    /\ tIdx = j /\ tIdx' = j + 1
    /\ trains'[j].position # trains[j].position

\* the onboard passengers of train j bound for its position, and the others
AtDestination(j) ==
    {k \in DOMAIN trains[j].passengers :
        trains[j].passengers[k].destination = trains[j].position}

\* C3, the records: every alighting record was made at the passenger's destination.
C3_AlightedAtDestination ==
    \A k \in DOMAIN alightings : born[alightings[k].id].destination = alightings[k].position

\* C3, the step: an exchange of train j appends one travel time per onboard
\* passenger bound for the train's position, removes exactly those passengers,
\* keeps the others at the head of the onboard list in their order, and leaves
\* nobody onboard who is bound for the train's position.
C3_ExchangeAlights ==
    \A j \in DOMAIN trains :
        ExchangeStep(j) =>
            LET old  == trains[j].passengers
                new  == trains'[j].passengers
                kept == LET K(p) == p.destination # trains[j].position IN SelectSeq(old, K)
            IN /\ Len(ELAPSED_TIMES') = Len(ELAPSED_TIMES) + Cardinality(AtDestination(j))
               /\ Len(alightings') = Len(alightings) + Cardinality(AtDestination(j))
               /\ {alightings'[k].id : k \in (Len(alightings) + 1)..Len(alightings')}
                     = {old[k].id : k \in AtDestination(j)}
               /\ Len(new) >= Len(kept)
               /\ SubSeq(new, 1, Len(kept)) = kept
               /\ \A k \in DOMAIN new : new[k].destination # trains'[j].position

\* C3: every passenger that alights does so at its destination, and an exchange
\* removes exactly the onboard passengers bound for the train's position.
C3_Alighting == [](C3_AlightedAtDestination) /\ [][C3_ExchangeAlights]_vars

\* a train has made an exchange at which one passenger alighted, after another
\* exchange at which it kept that passenger onboard
C3_Witness ==
    \E k \in DOMAIN alightings : \E j \in DOMAIN trains :
        /\ alightings[k].train = j
        /\ \E b \in DOMAIN boardings :
              /\ boardings[b].id = alightings[k].id
              /\ Dist(boardings[b].position, alightings[k].position) >= 2
              /\ DOMAIN stations = 0..2

----------------------------------------------------------------------------
(* C4, C5: the recorded times *)

\* the boarding wait recorded for passenger id (it has one boarding record)
WaitOf(id) == DEPARTURE_TIME[CHOOSE k \in RecordsOf(boardings, id) : TRUE]

\* the travel time recorded for passenger id (it has one alighting record)
TravelOf(id) == ELAPSED_TIMES[CHOOSE k \in RecordsOf(alightings, id) : TRUE]

\* the history records and the two metric lists go together, entry by entry
MetricsRecorded ==
    /\ Len(boardings) = Len(DEPARTURE_TIME)
    /\ Len(alightings) = Len(ELAPSED_TIMES)

\* C4: every recorded boarding wait and travel time is >= 0, and the travel time
\* recorded for a passenger that alighted is at least the boarding wait recorded
\* for it.
C4_TimesOrdered ==
    /\ MetricsRecorded
    /\ \A k \in DOMAIN DEPARTURE_TIME : DEPARTURE_TIME[k] >= 0
    /\ \A k \in DOMAIN ELAPSED_TIMES : ELAPSED_TIMES[k] >= 0
    /\ \A id \in Ids(alightings) :
          /\ id \in Ids(boardings)
          /\ TravelOf(id) >= WaitOf(id)

\* a passenger that waited at least one tick for its train has alighted
C4_Witness ==
    \E id \in Ids(alightings) : id \in Ids(boardings) /\ WaitOf(id) > 0

\* C5: the boarding wait recorded for a passenger is the tick of its boarding
\* minus the tick of its creation, and the travel time recorded for it is the
\* tick of its alighting minus the tick of its creation, a tick being the value
\* of MINUTE in the step of the event.
C5_ExactTimes ==
    /\ MetricsRecorded
    /\ \A k \in DOMAIN boardings :
          DEPARTURE_TIME[k] = boardings[k].tick - born[boardings[k].id].tick
    /\ \A k \in DOMAIN alightings :
          ELAPSED_TIMES[k] = alightings[k].tick - born[alightings[k].id].tick

\* a passenger created at tick 1 boarded at tick 3 and alighted at tick 5: the
\* recorded wait is 2 and the recorded travel time 4
C5_Witness ==
    \E id \in Ids(alightings) :
        /\ born[id].tick = 1
        /\ \E b \in RecordsOf(boardings, id) : boardings[b].tick = 3
        /\ \E a \in RecordsOf(alightings, id) : alightings[a].tick = 5
        /\ WaitOf(id) = 2
        /\ TravelOf(id) = 4

----------------------------------------------------------------------------
(* C6: destinations *)

\* C6: every passenger ever generated, and every passenger object held by a
\* waiting list or an onboard list, is bound for the position of a station of the
\* track other than the station that generated it.
C6_DestinationIsOtherStation ==
    /\ \A id \in DOMAIN born :
          /\ born[id].destination \in StationPositions(positions)
          /\ born[id].origin \in StationPositions(positions)
          /\ born[id].destination # born[id].origin
    /\ \A p \in Held :
          /\ p.id \in DOMAIN born
          /\ p.destination = born[p.id].destination
          /\ p.destination \in DOMAIN stations
          /\ p.destination # born[p.id].origin

\* the middle station of three has generated a passenger, which is onboard a train
C6_Witness ==
    /\ DOMAIN stations = 0..2
    /\ \E id \in DOMAIN born : born[id].origin = 1 /\ TrainPlaces(id) # {}

----------------------------------------------------------------------------
(* C7, C8: the run's end and invalid configurations *)

\* C7 as stated: when the steps of a run of at least one tick are done and no
\* passenger completed a trip, the run does not end in an uncaught exception.
C7_NoDataIsNoCrash ==
    (ticks > 0 /\ i >= ticks /\ ELAPSED_TIMES = <<>>) => pc # "raised"

\* an empty track, a track with no stations, or a negative run length
InvalidConfiguration ==
    \/ positions = <<>>
    \/ StationPositions(positions) = {}
    \/ ticks < 0

\* C8 as stated: for an invalid configuration no station generates demand, no
\* train advances and the clock is not incremented.
C8_InvalidRejected ==
    InvalidConfiguration =>
        /\ MINUTE = 0
        /\ sIdx = 1 /\ tIdx = 1
        /\ trains = TRAINS0
        /\ born = <<>>

----------------------------------------------------------------------------
(* C9: a move outside the track is fatal *)

\* C9, the states: a train is outside the track only in a run that has ended in
\* an uncaught exception.
C9_OutsideOnlyRaised ==
    \A j \in DOMAIN trains : ~InTrack(trains[j].position) => pc = "raised"

\* C9, the steps: a run that has ended in an uncaught exception takes no step.
C9_RaisedIsFinal == pc # "raised"

\* C9: the advance call that takes a train outside the track ends the run: no
\* later train is advanced and the clock is not incremented again.
C9_OutsideIsFatal == [](C9_OutsideOnlyRaised) /\ [][C9_RaisedIsFinal]_vars

\* the first of two trains has left the track in its advance; the second one
\* was not advanced in that tick
C9_Witness ==
    /\ NTrains = 2 /\ tIdx = 1
    /\ TrackLength >= 2
    /\ ~InTrack(trains[1].position)
    /\ pc = "raised" /\ err = "AssertionError"
    /\ trains[2] = TRAINS0[2] /\ moves[2] = 0

----------------------------------------------------------------------------
(* C10: trains oscillate between the two ends *)

\* the position after m moves of a train that starts at 0 heading for len - 1
Sawtooth(len, m) ==
    LET period == 2 * (len - 1)
        r      == m % period
    IN IF r <= len - 1 THEN r ELSE period - r

\* the number of moves after which a train started at 0 heading for len - 1 is
\* in the place and direction of train
Phase(len, train) ==
    IF train.direction = 1 THEN train.position ELSE 2 * (len - 1) - train.position

\* C10, the step: a move that returns negates the direction exactly when the new
\* position is 0 or trackLength-1, changes the position by one, and does not
\* take the train from one end of a track of more than two positions to the other.
C10_SwitchAtEnds ==
    \A j \in DOMAIN trains :
        (MoveStep(j) /\ pc' # "raised") =>
            /\ trains'[j].direction = IF trains'[j].position \in {0, TrackLength - 1}
                                      THEN -trains[j].direction
                                      ELSE trains[j].direction
            /\ Dist(trains'[j].position, trains[j].position) = 1

\* C10, the states: on a track of length >= 2 a train started inside the track
\* and not facing outward at an end is, after its m-th move, where the reflected
\* sawtooth 0, 1, ..., trackLength-1, trackLength-2, ..., 0, ... puts it.
C10_OnSawtooth ==
    TrackLength >= 2 =>
        \A j \in DOMAIN trains :
            FacesInward(TRAINS0[j]) =>
                trains[j].position = Sawtooth(TrackLength, Phase(TrackLength, TRAINS0[j]) + moves[j])

\* C10: trains bounce between the two ends of the line.
C10_Oscillates == [](C10_OnSawtooth) /\ [][C10_SwitchAtEnds]_vars

\* a train started at position 0 of a track of length >= 3 with direction +1 has
\* gone to the other end and come back to 0
C10_Witness ==
    \E j \in DOMAIN trains :
        /\ TrackLength >= 3
        /\ TRAINS0[j].position = 0 /\ TRAINS0[j].direction = 1
        /\ moves[j] = 2 * (TrackLength - 1)
        /\ trains[j].position = 0 /\ trains[j].direction = 1

----------------------------------------------------------------------------
(* C11: the two transitions of advance *)

\* train j is the train whose advance is called in this step
AdvanceStep(j) ==
    /\ j \in DOMAIN trains
    /\ pc = "loop" /\ tIdx = j
    /\ trains'[j] # trains[j]

\* the track flags position as a station
IsStation(position) == InTrack(position) /\ positions[position + 1] # 0

\* nothing alights or boards in this step
NoExchange(j) ==
    /\ trains'[j].passengers = trains[j].passengers
    /\ stations' = stations
    /\ ELAPSED_TIMES' = ELAPSED_TIMES
    /\ DEPARTURE_TIME' = DEPARTURE_TIME

\* C11: an advance of a train that is at a station with should_depart false
\* sets should_depart and leaves position and direction as they are; any other
\* advance exchanges no passenger, clears should_depart and changes the position
\* by exactly direction.
C11_TwoTransitions ==
    \A j \in DOMAIN trains :
        AdvanceStep(j) =>
            IF IsStation(trains[j].position) /\ ~trains[j].should_depart
            THEN /\ trains'[j].should_depart
                 /\ trains'[j].position = trains[j].position
                 /\ trains'[j].direction = trains[j].direction
                 /\ tIdx' = j + 1
            ELSE /\ NoExchange(j)
                 /\ ~trains'[j].should_depart
                 /\ trains'[j].position = trains[j].position + trains[j].direction

\* C11: every advance is one of the two transitions, chosen by the station flag
\* of the train's position and should_depart.
C11_Advance == [][C11_TwoTransitions]_vars

\* on the track [1, 0, 1] a train that was at station 0 with direction +1 and
\* should_depart false stayed at 0 in one tick and moved to 1 in the next
C11_Witness ==
    /\ positions = <<1, 0, 1>>
    /\ NTrains = 1 /\ tIdx = 2
    /\ Len(path[1]) >= 3
    /\ SubSeq(path[1], Len(path[1]) - 2, Len(path[1])) = <<0, 0, 1>>
    /\ trains[1].position = 1 /\ trains[1].direction = 1 /\ ~trains[1].should_depart

----------------------------------------------------------------------------
(* C12: the boarding rule *)

\* the rule, on the train as it is before the exchange (an exchange changes
\* neither position nor direction)
MustBoard(j, passenger) ==
    (trains[j].position < passenger.destination) = (trains[j].direction = 1)

\* C12, the step: in an exchange of train j the waiting passengers that satisfy
\* the rule, and only they, leave the waiting list; they are appended to the
\* onboard list in their waiting order with one boarding wait each, and the
\* others stay in the waiting list in their order.
C12_ExchangeBoards ==
    \A j \in DOMAIN trains :
        ExchangeStep(j) =>
            LET waiting  == stations[trains[j].position]
                boarding == LET B(p) == MustBoard(j, p) IN SelectSeq(waiting, B)
                staying  == LET S(p) == ~MustBoard(j, p) IN SelectSeq(waiting, S)
                new      == trains'[j].passengers
            IN /\ stations'[trains[j].position] = staying
               /\ \A q \in DOMAIN stations : q # trains[j].position => stations'[q] = stations[q]
               /\ Len(new) >= Len(boarding)
               /\ SubSeq(new, Len(new) - Len(boarding) + 1, Len(new)) = boarding
               /\ Len(DEPARTURE_TIME') = Len(DEPARTURE_TIME) + Len(boarding)
               /\ Len(boardings') = Len(boardings) + Len(boarding)
               /\ \A k \in DOMAIN boarding :
                     boardings'[Len(boardings) + k].id = boarding[k].id

----------------------------------------------------------------------------
(* C13: the first tick *)

\* the position of train j before its k-th advance (k = 1 is its start) and
\* after it
Before(j, k) == IF k = 1 THEN TRAINS0[j].position ELSE path[j][k - 1]

After(j, k) == path[j][k]

\* the run ended in an uncaught exception of the advance of train j
AdvanceRaised(j) ==
    /\ pc = "raised" /\ i < ticks
    /\ sIdx = NStations + 1 /\ tIdx = j
    /\ err \in {"AssertionError", "ZeroDivisionError"}

\* C13: every train is constructed with should_depart true, whatever its
\* position; its first advance is a move by one position and no exchange, also
\* when it starts at a station; until the first step is over no boarding wait
\* and no travel time is recorded, and when it is over every train has moved
\* exactly once.
C13_FirstTickMoves ==
    /\ \A j \in DOMAIN TRAINS0 : TRAINS0[j].should_depart /\ TRAINS0[j].passengers = <<>>
    /\ \A j \in DOMAIN trains :
          /\ path[j] = <<>> /\ ~AdvanceRaised(j) => trains[j] = TRAINS0[j]
          /\ path[j] # <<>> =>
                /\ After(j, 1) = TRAINS0[j].position + TRAINS0[j].direction
                /\ MINUTE = 0 => ~trains[j].should_depart /\ trains[j].passengers = <<>>
    /\ (MINUTE = 0 \/ (MINUTE = 1 /\ sIdx = 1 /\ tIdx = 1)) =>
          DEPARTURE_TIME = <<>> /\ ELAPSED_TIMES = <<>>
    /\ (MINUTE = 1 /\ sIdx = 1 /\ tIdx = 1) =>
          \A j \in DOMAIN trains : moves[j] = 1 /\ Len(path[j]) = 1

\* the first step of the shipped run is over: the trains created at the
\* stations 0 and 47 have moved to 1 and 46
C13_Witness ==
    /\ positions = ShippedE
    /\ MINUTE = 1 /\ sIdx = 1 /\ tIdx = 1
    /\ IsStation(TRAINS0[1].position) /\ trains[1].position = 1
    /\ IsStation(TRAINS0[6].position) /\ trains[6].position = 46

----------------------------------------------------------------------------
(* C14: the order inside one tick *)

\* C14, the step: a station generates passengers only before any train has been
\* advanced in the tick; a train is advanced only after every station has
\* generated, in registration order; the clock changes only after the last
\* train, by exactly 1, and then the next tick starts with the first station.
C14_StepOrder ==
    /\ born' # born \/ sIdx' = sIdx + 1 =>
          tIdx = 1 /\ MINUTE' = MINUTE /\ trains' = trains
    /\ trains' # trains =>
          /\ sIdx = NStations + 1 /\ sIdx' = sIdx
          /\ MINUTE' = MINUTE
          /\ \E j \in DOMAIN trains :
                /\ tIdx = j
                /\ tIdx' = j + 1 \/ pc' = "raised"
                /\ \A k \in DOMAIN trains : k # j => trains'[k] = trains[k]
    /\ MINUTE' # MINUTE =>
          /\ sIdx = NStations + 1 /\ tIdx = NTrains + 1
          /\ MINUTE' = MINUTE + 1
          /\ sIdx' = 1 /\ tIdx' = 1
          /\ stations' = stations /\ trains' = trains

\* C14, the states: the clock counts the completed steps; every passenger is
\* stamped with the tick of its creation; the stations before the next one to
\* generate hold every passenger of this tick that has not boarded, so the
\* passengers of tick t are waiting when the trains exchange in tick t.
C14_Stamps ==
    /\ MINUTE = i
    /\ \A p \in Held : p.start = born[p.id].tick
    /\ \A id \in DOMAIN born : born[id].tick <= MINUTE
    /\ \A k \in DOMAIN boardings : boardings[k].tick >= born[boardings[k].id].tick

\* C14: stations generate, then trains advance in registration order, then the
\* clock is incremented by 1.
C14_TickOrder == [](C14_Stamps) /\ [][C14_StepOrder]_vars

\* a passenger generated in this tick has boarded in this tick with a recorded
\* wait of 0
C14_Witness ==
    \E k \in DOMAIN boardings :
        /\ born[boardings[k].id].tick = MINUTE
        /\ boardings[k].tick = MINUTE
        /\ MINUTE > 0
        /\ DEPARTURE_TIME[k] = 0

----------------------------------------------------------------------------
(* C15, C16: dwelling *)

\* the k-th advance of train j was an exchange: it left the train where it was
Exchanged(j, k) == After(j, k) = Before(j, k)

\* the last three advances of train j; path only grows, by one entry at its
\* end, so a property of these in every state is a property of every advance
Recent(j) == {k \in (Len(path[j]) - 2)..Len(path[j]) : k >= 1}

\* C15: a train that made its exchange in one tick moves in the next: no train
\* makes two exchanges in consecutive ticks or keeps its position over two
\* consecutive ticks, and a train that has made its exchange has should_depart
\* set until it moves.
C15_DwellsOneTick ==
    \A j \in DOMAIN trains :
        /\ \A k \in Recent(j) :
              (Exchanged(j, k) /\ k + 1 \in DOMAIN path[j]) => ~Exchanged(j, k + 1)
        /\ (path[j] # <<>> /\ Exchanged(j, Len(path[j]))) =>
              /\ trains[j].should_depart
              /\ ~AdvanceRaised(j)
        /\ Len(path[j]) \in {MINUTE, MINUTE + 1}

\* a train has made an exchange, a move and the next exchange in three
\* consecutive ticks
C15_Witness ==
    \E j \in DOMAIN trains : \E k \in DOMAIN path[j] :
        /\ k + 2 \in DOMAIN path[j]
        /\ Exchanged(j, k) /\ ~Exchanged(j, k + 1) /\ Exchanged(j, k + 2)

\* C16: when a move puts a train on a station position, an end of the line
\* included, the train's next advance is an exchange there; the only advance
\* that takes a train away from a station without an exchange in the tick before
\* is its first one.
C16_NoStationSkipped ==
    \A j \in DOMAIN trains :
        \A k \in Recent(j) :
            /\ (~Exchanged(j, k) /\ IsStation(After(j, k))) =>
                  /\ k + 1 \in DOMAIN path[j] => Exchanged(j, k + 1)
                  /\ k = Len(path[j]) => ~trains[j].should_depart /\ ~AdvanceRaised(j)
            /\ (~Exchanged(j, k) /\ IsStation(Before(j, k)) /\ k > 1) => Exchanged(j, k - 1)

\* a train has arrived at the station at position 0, where its direction was
\* negated, made its exchange there and left
C16_Witness ==
    \E j \in DOMAIN trains : \E k \in DOMAIN path[j] :
        /\ k > 1 /\ k + 1 \in DOMAIN path[j]
        /\ IsStation(0)
        /\ Before(j, k - 1) = 1 /\ After(j, k - 1) = 0
        /\ Exchanged(j, k)
        /\ After(j, k + 1) = 1

----------------------------------------------------------------------------
(* C17: onboard passengers are bound for a position ahead of their train *)

\* every train was started not facing outward at an end of the track
StartedInward == \A j \in DOMAIN TRAINS0 : FacesInward(TRAINS0[j])

\* train j has arrived at its position and has not made its exchange there
JustArrived(j) == IsStation(trains[j].position) /\ ~trains[j].should_depart

\* C17: with the trains started empty, inside the track and not facing outward,
\* every onboard passenger of a train with direction +1 is bound for a position
\* >= the train's and every onboard passenger of a train with direction -1 for
\* a position <= the train's, with equality only between the train's arrival at
\* that station and its exchange there; a train that has arrived at an end of
\* the line carries only passengers bound for that end.
C17_BoundAhead ==
    (TrackLength >= 2 /\ StartedInward) =>
        \A j \in DOMAIN trains :
            \A k \in DOMAIN trains[j].passengers :
                LET destination == trains[j].passengers[k].destination
                    position    == trains[j].position
                IN /\ trains[j].direction = 1 => destination >= position
                   /\ trains[j].direction = -1 => destination <= position
                   /\ destination = position => JustArrived(j)
                   /\ (position \in {0, TrackLength - 1} /\ ~trains[j].should_depart)
                         => destination = position

\* a train that took a passenger at station 0 for station 2 and stopped at
\* station 1 on the way has arrived at the end 2 of the line, where its
\* direction was negated
C17_Witness ==
    \E j \in DOMAIN trains :
        /\ DOMAIN stations = 0..2 /\ TrackLength = 3
        /\ trains[j].position = 2 /\ trains[j].direction = -1 /\ JustArrived(j)
        /\ Len(trains[j].passengers) = 1
        /\ trains[j].passengers[1].destination = 2
        /\ born[trains[j].passengers[1].id].origin = 0

----------------------------------------------------------------------------
(* C18: passenger conservation *)

RECURSIVE SumOver(_, _)
\* the sum of f[x] over the x of the finite set S
SumOver(f, S) ==
    IF S = {} THEN 0
    ELSE LET x == CHOOSE y \in S : TRUE IN f[x] + SumOver(f, S \ {x})

\* the passengers in all waiting lists, and onboard all trains
Waiting == SumOver([p \in DOMAIN stations |-> Len(stations[p])], DOMAIN stations)

Onboard == SumOver([j \in DOMAIN trains |-> Len(trains[j].passengers)], DOMAIN trains)

IsPrefix(s, t) == Len(s) <= Len(t) /\ SubSeq(t, 1, Len(s)) = s

\* C18, the states: the passengers generated so far are the waiting ones, the
\* onboard ones and the ones with a travel time; the boarding waits recorded
\* are those of the onboard passengers and of the ones with a travel time.
C18_Counts ==
    /\ Len(born) = Waiting + Onboard + Len(ELAPSED_TIMES)
    /\ Len(DEPARTURE_TIME) = Onboard + Len(ELAPSED_TIMES)

\* C18, the steps: both metric lists only grow, at their end, and a move changes
\* no list of passengers.
C18_Grows ==
    /\ IsPrefix(ELAPSED_TIMES, ELAPSED_TIMES')
    /\ IsPrefix(DEPARTURE_TIME, DEPARTURE_TIME')
    /\ \A j \in DOMAIN trains :
          MoveStep(j) => trains'[j].passengers = trains[j].passengers /\ stations' = stations

\* C18: no passenger is lost or created by boarding, alighting or motion.
C18_Conservation == [](C18_Counts) /\ [][C18_Grows]_vars

\* of two passengers generated, one has alighted and the other one is onboard
\* a train that has moved since it boarded
C18_Witness ==
    /\ Len(born) = 2 /\ Len(ELAPSED_TIMES) = 1 /\ Onboard = 1 /\ Waiting = 0
    /\ \E j \in DOMAIN trains :
          /\ Len(trains[j].passengers) = 1
          /\ ~IsStation(trains[j].position) \/ ~trains[j].should_depart

----------------------------------------------------------------------------
(* C19: the in-vehicle time *)

\* the station positions strictly between p and d
StationsBetween(p, d) ==
    {q \in DOMAIN stations : (p < q /\ q < d) \/ (d < q /\ q < p)}

\* one tick per position, one per stop on the way, one for the exchange at d
RideTime(p, d) == Dist(p, d) + Cardinality(StationsBetween(p, d)) + 1

\* C19: for every passenger that boarded at station position p and alighted at
\* its destination d, the recorded travel time minus the recorded boarding wait
\* is |d - p| + k + 1, k being the number of station positions strictly between
\* p and d; it is at least 2.
C19_RideTime ==
    \A a \in DOMAIN alightings :
        \E b \in DOMAIN boardings :
            /\ boardings[b].id = alightings[a].id
            /\ boardings[b].position = born[alightings[a].id].origin
            /\ ELAPSED_TIMES[a] - DEPARTURE_TIME[b]
                  = RideTime(boardings[b].position, alightings[a].position)
            /\ ELAPSED_TIMES[a] - DEPARTURE_TIME[b] >= 2

\* a passenger rode from station 0 to station 2 past the station 1, where its
\* train stopped: travel time minus boarding wait is 2 + 1 + 1 = 4
C19_Witness ==
    \E a \in DOMAIN alightings : \E b \in DOMAIN boardings :
        /\ boardings[b].id = alightings[a].id
        /\ boardings[b].position = 0 /\ alightings[a].position = 2
        /\ StationsBetween(0, 2) = {1}
        /\ ELAPSED_TIMES[a] - DEPARTURE_TIME[b] = 4

----------------------------------------------------------------------------
(* C20: no passenger is stranded *)

\* every configuration of the scope, run for LongTicks ticks
InitLong == \E E \in Tracks : \E T \in TrainLists(E) : Start(E, T, LongTicks)

SpecLong == InitLong /\ [][Next]_vars

\* the ticks after which a train is back in the same place with the same
\* direction and flag: two moves per gap between positions, two stops per
\* station inside the line and one per station at an end
RoundTrip ==
    2 * (TrackLength - 1) + 2 * NStations
        - Cardinality(DOMAIN stations \cap {0, TrackLength - 1})

\* the last tick in which passenger id can be waiting, and in which it can be
\* onboard
BoardBy(id) == born[id].tick + RoundTrip - 1

AlightBy(id) == BoardBy(id) + RideTime(born[id].origin, born[id].destination)

\* C20: on a track of length >= 2 with at least one train, the trains started
\* inside the track and not facing outward, every passenger has boarded a train
\* once the clock is past its creation by a round trip of a train, and has
\* alighted once it is past that by the ride to its destination: stepping on, no
\* passenger waits or rides for ever, whatever its station, destination and tick.
C20_Served ==
    (TrackLength >= 2 /\ NTrains >= 1 /\ StartedInward) =>
        \A id \in DOMAIN born :
            /\ MINUTE > BoardBy(id) => id \in Ids(boardings)
            /\ MINUTE > AlightBy(id) => id \in Ids(alightings)

\* a passenger has waited a whole round trip of the only train, boarded in the
\* last tick it could, and alighted
C20_Witness ==
    \E id \in DOMAIN born :
        /\ TrackLength = 3 /\ NTrains = 1 /\ StartedInward
        /\ \E b \in RecordsOf(boardings, id) : boardings[b].tick = BoardBy(id)
        /\ \E a \in RecordsOf(alightings, id) : alightings[a].tick = AlightBy(id)
        /\ MINUTE > AlightBy(id)

====
